---- MODULE Spec2Model ----
(***************************************************************************)
(* Model of the PUS C telecommand packet (src/src/tc.rs) and of the CDS    *)
(* short time stamp (src/src/time.rs) of the spacepackets crate.           *)
(*                                                                         *)
(* Bytes are naturals 0..255, slices and vectors are sequences (the Rust   *)
(* index i is the TLA+ index i + 1), Option values are records with a      *)
(* "some" flag, and the outcome of a call is a record with a status        *)
(* "Ok", "Err" or "Panic".                                                 *)
(***************************************************************************)
EXTENDS Integers, Sequences, FiniteSets, TLC

(***************************************************************************)
(* Bounds of the model.                                                    *)
(***************************************************************************)
\* longest application data slice of the encode/decode specifications
MaxPayload == 2
\* longest destination slice handed to write_to_bytes
MaxBuf == 16
\* longest vector handed to append_to_vec
MaxVec == 13

(***************************************************************************)
(* Machine integers and bit operations.                                    *)
(***************************************************************************)
U8 == 256
U16 == 65536

RECURSIVE BitAnd(_, _)
BitAnd(a, b) ==
    IF a = 0 \/ b = 0 THEN 0
    ELSE (a % 2) * (b % 2) + 2 * BitAnd(a \div 2, b \div 2)

RECURSIVE BitOr(_, _)
BitOr(a, b) ==
    IF a = 0 THEN b
    ELSE IF b = 0 THEN a
    ELSE (IF a % 2 = 1 \/ b % 2 = 1 THEN 1 ELSE 0) + 2 * BitOr(a \div 2, b \div 2)

RECURSIVE BitXor(_, _)
BitXor(a, b) ==
    IF a = 0 THEN b
    ELSE IF b = 0 THEN a
    ELSE ((a + b) % 2) + 2 * BitXor(a \div 2, b \div 2)

\* u16::to_be_bytes
U16ToBe(x) == << x \div 256, x % 256 >>
\* u16::from_be_bytes
U16FromBe(hi, lo) == hi * 256 + lo

(***************************************************************************)
(* Option and Result values.                                               *)
(***************************************************************************)
None == [some |-> FALSE]
Some(v) == [some |-> TRUE, val |-> v]

Ok(v) == [status |-> "Ok", err |-> "", val |-> v, expected |-> 0, found |-> 0]
Err(e, v) == [status |-> "Err", err |-> e, val |-> v, expected |-> 0, found |-> 0]
Panic(why) == [status |-> "Panic", err |-> why, val |-> 0, expected |-> 0, found |-> 0]
\* ByteConversionError::ToSliceTooSmall(SizeMissmatch { found, expected })
ToSliceTooSmall(f, e) ==
    [status |-> "Err", err |-> "ToSliceTooSmall", val |-> 0, expected |-> e, found |-> f]

(***************************************************************************)
(* Rust slices: s[a..b] with 0-based half-open ranges.                     *)
(***************************************************************************)
Slice(s, a, b) == SubSeq(s, a + 1, b)
\* whether s[a..b] is in range (the slice expression panics when it is not)
InRange(s, a, b) == a <= b /\ b <= Len(s)
\* s[a..a + len(bytes)].copy_from_slice(bytes)
CopyInto(s, a, bytes) ==
    [i \in 1..Len(s) |->
        IF i > a /\ i <= a + Len(bytes) THEN bytes[i - a] ELSE s[i]]

(***************************************************************************)
(* Checksum engine: CRC-16/CCITT-FALSE, polynomial 0x1021, initial value   *)
(* 0xFFFF, no reflection, no final xor.                                    *)
(***************************************************************************)
CrcShift(crc) ==
    IF crc >= 32768 THEN BitXor((crc * 2) % U16, 4129) ELSE crc * 2

RECURSIVE CrcBits(_, _)
CrcBits(crc, n) == IF n = 0 THEN crc ELSE CrcBits(CrcShift(crc), n - 1)

\* the digest of each single byte from a zero register: the lookup table of
\* the byte-wise algorithm
CrcTable == [i \in 0..255 |-> CrcBits(i * 256, 8)]

\* one byte into the digest
CrcUpdateByte(crc, b) ==
    BitXor((crc % 256) * 256, CrcTable[BitXor(crc \div 256, b)])

RECURSIVE CrcUpdate(_, _, _)
\* digest.update(bytes[i..]); the digest is a u16 after every byte
CrcUpdate(crc, bytes, i) ==
    IF i > Len(bytes) THEN crc
    ELSE LET c == CrcUpdateByte(crc, bytes[i])
         IN  IF c < U16 THEN CrcUpdate(c, bytes, i + 1) ELSE c % U16

\* CRC_CCITT_FALSE.digest(), update(bytes), finalize()
calc_pus_crc16(bytes) == CrcUpdate(65535, bytes, 1)

(***************************************************************************)
(* Space packet primary header (crate root, used by tc.rs through          *)
(* SpHeader): 3 bit version, packet type, secondary header flag, 11 bit    *)
(* APID, 2 bit sequence flags, 14 bit sequence count, 16 bit data length.  *)
(***************************************************************************)
CCSDS_HEADER_LEN == 6
\* PacketType::Tm, PacketType::Tc
Tm == 0
Tc == 1
\* SequenceFlags::Unsegmented
Unsegmented == 3

\* SpHeader::tc_unseg(apid, seq_count, data_len)
tc_unseg(apid, seq_count, data_len) ==
    [version |-> 0, ptype |-> Tc, sec_header_flag |-> FALSE, apid |-> apid,
     seq_flags |-> Unsegmented, seq_count |-> seq_count, data_len |-> data_len]

\* SpHeader::tm_unseg(apid, seq_count, data_len)
tm_unseg(apid, seq_count, data_len) ==
    [version |-> 0, ptype |-> Tm, sec_header_flag |-> FALSE, apid |-> apid,
     seq_flags |-> Unsegmented, seq_count |-> seq_count, data_len |-> data_len]

set_packet_type(h, ptype) == [h EXCEPT !.ptype = ptype]
set_sec_header_flag(h) == [h EXCEPT !.sec_header_flag = TRUE]

\* SpHeader::total_len: the length field counts the bytes after the header, minus one
total_len(h) == h.data_len + CCSDS_HEADER_LEN + 1

\* zc::SpHeader::from(SpHeader).as_bytes(): the 6 bytes, big endian
SpHeaderToBytes(h) ==
    << h.version * 32 + h.ptype * 16 + (IF h.sec_header_flag THEN 8 ELSE 0)
         + h.apid \div 256,
       h.apid % 256,
       h.seq_flags * 64 + h.seq_count \div 256,
       h.seq_count % 256,
       h.data_len \div 256,
       h.data_len % 256 >>

\* SpHeader::from_be_bytes on 6 bytes
SpHeaderFromBytes(b) ==
    [version |-> b[1] \div 32,
     ptype |-> (b[1] \div 16) % 2,
     sec_header_flag |-> ((b[1] \div 8) % 2 = 1),
     apid |-> (b[1] % 8) * 256 + b[2],
     seq_flags |-> b[3] \div 64,
     seq_count |-> (b[3] % 64) * 256 + b[4],
     data_len |-> U16FromBe(b[5], b[6])]

(***************************************************************************)
(* PUS TC secondary header.                                                *)
(***************************************************************************)
\* size_of::<zc::PusTcSecondaryHeader>(): u8, u8, u8, U16
PUC_TC_SECONDARY_HEADER_LEN == 5
\* size_of::<CrcType>()
CRC_LEN == 2
PUS_TC_MIN_LEN_WITHOUT_APP_DATA ==
    CCSDS_HEADER_LEN + PUC_TC_SECONDARY_HEADER_LEN + CRC_LEN

\* PusVersion::PusA, PusVersion::PusC
PusA == 1
PusC == 2
PUS_VERSION == PusC

\* AckOpts
AckAcceptance == 8
AckStart == 4
AckProgress == 2
AckCompletion == 1
ACK_ALL == BitOr(BitOr(AckAcceptance, AckStart), BitOr(AckProgress, AckCompletion))

\* PusTcSecondaryHeader is Copy: a header handed over by value is a copy
CopySecHeader(h) ==
    [service |-> h.service, subservice |-> h.subservice,
     source_id |-> h.source_id, ack |-> h.ack, version |-> h.version]

\* PusTcSecondaryHeader::new_simple
SecHeaderNewSimple(service, subservice) ==
    [service |-> service, subservice |-> subservice, source_id |-> 0,
     ack |-> ACK_ALL, version |-> PusC]

\* PusTcSecondaryHeader::new
SecHeaderNew(service, subservice, ack, source_id) ==
    [service |-> service, subservice |-> subservice, source_id |-> source_id,
     ack |-> BitAnd(ack, 15), version |-> PusC]

\* zc::PusTcSecondaryHeader::try_from(PusTcSecondaryHeader): the zerocopy
\* struct is its 5 bytes
ZcSecHeaderTryFrom(value) ==
    IF value.version # PusC
    THEN Err("VersionNotSupported", value.version)
    ELSE Ok(<< BitOr((value.version * 16) % U8, value.ack),
               value.service,
               value.subservice >> \o U16ToBe(value.source_id))

\* accessors of zc::PusTcSecondaryHeader, on its 5 bytes
ZcAckFlags(b) == BitAnd(b[1], 15)
ZcService(b) == b[2]
ZcSubservice(b) == b[3]
ZcSourceId(b) == U16FromBe(b[4], b[5])

\* PusTcSecondaryHeader::try_from(zc::PusTcSecondaryHeader)
SecHeaderTryFromZc(b) ==
    [service |-> ZcService(b), subservice |-> ZcSubservice(b),
     source_id |-> ZcSourceId(b), ack |-> ZcAckFlags(b), version |-> PUS_VERSION]

(***************************************************************************)
(* Helpers of the ecss module used by tc.rs.                               *)
(***************************************************************************)
\* crc_procedure(calc_on_serialization, cached_crc16, start_idx, curr_idx, slice)
crc_procedure(calc_on_serialization, cached_crc16, start_idx, curr_idx, slice) ==
    IF calc_on_serialization
    THEN IF ~InRange(slice, start_idx, curr_idx)
         THEN Panic("slice index out of range")
         ELSE Ok(calc_pus_crc16(Slice(slice, start_idx, curr_idx)))
    ELSE IF ~cached_crc16.some
    THEN Err("CrcCalculationMissing", 0)
    ELSE Ok(cached_crc16.val)

\* user_data_from_raw(current_idx, total_len, raw_data_len, slice)
user_data_from_raw(current_idx, total, raw_data_len, slice) ==
    IF current_idx = total - 2 THEN Ok(None)
    ELSE IF current_idx > total - 2 THEN Err("RawDataTooShort", raw_data_len)
    ELSE Ok(Some(Slice(slice, current_idx, total - 2)))

\* crc_from_raw_data(raw_data): the trailing two bytes, big endian
crc_from_raw_data(raw_data) ==
    IF Len(raw_data) < 2 THEN Err("FromSliceTooSmall", Len(raw_data))
    ELSE Ok(U16FromBe(raw_data[Len(raw_data) - 1], raw_data[Len(raw_data)]))

\* verify_crc16_from_raw(raw_data, crc16): the checksum over the bytes before
\* the trailer is compared with the trailer
verify_crc16_from_raw(raw_data, crc16) ==
    IF calc_pus_crc16(Slice(raw_data, 0, Len(raw_data) - 2)) = crc16
    THEN Ok(0)
    ELSE Err("IncorrectCrc", crc16)

(***************************************************************************)
(* PusTc: the pure part of each method.  A packet is a record              *)
(*   sp_header, sec_header, calc_crc_on_serialization, raw_data, app_data, *)
(*   crc16                                                                 *)
(* with raw_data, app_data and crc16 Option values.                        *)
(***************************************************************************)
\* a len_packed that leaves the application data out
len_packed_NoAppData(p) == PUS_TC_MIN_LEN_WITHOUT_APP_DATA

\* PusTc::len_packed
len_packed(p) ==
    IF p.app_data.some
    THEN PUS_TC_MIN_LEN_WITHOUT_APP_DATA + Len(p.app_data.val)
    ELSE PUS_TC_MIN_LEN_WITHOUT_APP_DATA

\* a - b on u16: a build with overflow checks panics on underflow, one
\* without wraps
U16Sub(a, b) ==
    IF a >= b THEN {Ok(a - b)}
    ELSE {Panic("attempt to subtract with overflow"), Ok(a - b + U16)}

\* PusTc::update_ccsds_data_len: the outcomes of
\*   len_packed() as u16 - size_of::<zc::SpHeader>() as u16 - 1
DataLenOutcomes(p) ==
    UNION { IF r.status = "Ok" THEN U16Sub(r.val, 1) ELSE {r} :
            r \in U16Sub(len_packed(p) % U16, CCSDS_HEADER_LEN) }

\* PusTc::update_ccsds_data_len with the length field computed as r
WithDataLen(p, r) == [p EXCEPT !.sp_header.data_len = r.val]

\* a calc_own_crc16 that leaves the application data out of the digest
calc_own_crc16_NoAppData(p) ==
    LET sec == ZcSecHeaderTryFrom(p.sec_header)
    IN  IF sec.status # "Ok" THEN [res |-> Panic("unwrap on Err"), tc |-> p]
        ELSE LET d1 == CrcUpdate(65535, SpHeaderToBytes(p.sp_header), 1)
                 d2 == CrcUpdate(d1, sec.val, 1)
             IN  [res |-> Ok(0), tc |-> [p EXCEPT !.crc16 = Some(d2)]]

\* PusTc::calc_own_crc16
calc_own_crc16(p) ==
    LET sec == ZcSecHeaderTryFrom(p.sec_header)
    IN  IF sec.status # "Ok" THEN [res |-> Panic("unwrap on Err"), tc |-> p]
        ELSE LET d1 == CrcUpdate(65535, SpHeaderToBytes(p.sp_header), 1)
                 d2 == CrcUpdate(d1, sec.val, 1)
                 d3 == IF p.app_data.some THEN CrcUpdate(d2, p.app_data.val, 1)
                       ELSE d2
             IN  [res |-> Ok(0), tc |-> [p EXCEPT !.crc16 = Some(d3)]]

\* a write_to_bytes that computes the checksum of what it wrote in both modes
write_to_bytes_Recomputed(p, slice) ==
    LET body == SpHeaderToBytes(p.sp_header) \o ZcSecHeaderTryFrom(p.sec_header).val
                  \o (IF p.app_data.some THEN p.app_data.val ELSE << >>)
        total_size == Len(body) + CRC_LEN
    IN  IF total_size > Len(slice)
        THEN [res |-> ToSliceTooSmall(Len(slice), total_size), slice |-> slice]
        ELSE [res |-> Ok(total_size),
              slice |-> CopyInto(slice, 0, body \o U16ToBe(calc_pus_crc16(body)))]

\* PusTc::write_to_bytes: the result and the slice as the call leaves it
write_to_bytes(p, slice) ==
    LET total_size == len_packed(p)
        sec == ZcSecHeaderTryFrom(p.sec_header)
        s1 == CopyInto(slice, 0, SpHeaderToBytes(p.sp_header))
        idx1 == CCSDS_HEADER_LEN
    IN  IF total_size > Len(slice)
        THEN [res |-> ToSliceTooSmall(Len(slice), total_size), slice |-> slice]
        ELSE IF sec.status # "Ok"
        THEN [res |-> Panic("unwrap on Err"), slice |-> s1]
        ELSE LET s2 == CopyInto(s1, idx1, sec.val)
                 idx2 == idx1 + PUC_TC_SECONDARY_HEADER_LEN
                 s3 == IF p.app_data.some THEN CopyInto(s2, idx2, p.app_data.val)
                       ELSE s2
                 idx3 == IF p.app_data.some THEN idx2 + Len(p.app_data.val)
                         ELSE idx2
                 crc == crc_procedure(p.calc_crc_on_serialization, p.crc16,
                                        0, idx3, s3)
             IN  IF crc.status # "Ok"
                 THEN [res |-> crc, slice |-> s3]
                 ELSE [res |-> Ok(idx3 + 2),
                       slice |-> CopyInto(s3, idx3, U16ToBe(crc.val))]

\* PusTc::append_to_vec: the result and the vector as the call leaves it
append_to_vec(p, vec) ==
    LET appended_len == len_packed(p)
        start_idx == Len(vec)
        v1 == vec \o SpHeaderToBytes(p.sp_header)
        sec == ZcSecHeaderTryFrom(p.sec_header)
    IN  IF sec.status # "Ok"
        THEN [res |-> Panic("unwrap on Err"), vec |-> v1]
        ELSE LET v2 == v1 \o sec.val
                 v3 == IF p.app_data.some THEN v2 \o p.app_data.val ELSE v2
                 ser_len == CCSDS_HEADER_LEN + PUC_TC_SECONDARY_HEADER_LEN
                            + (IF p.app_data.some THEN Len(p.app_data.val) ELSE 0)
             IN  IF ~InRange(v3, start_idx, ser_len)
                 THEN [res |-> Panic("slice index out of range"), vec |-> v3]
                 ELSE LET crc == crc_procedure(p.calc_crc_on_serialization,
                                       p.crc16, start_idx, ser_len,
                                       Slice(v3, start_idx, ser_len))
                      IN  IF crc.status # "Ok"
                          THEN [res |-> crc, vec |-> v3]
                          ELSE [res |-> Ok(appended_len),
                                vec |-> v3 \o U16ToBe(crc.val)]

\* a length check that does not compare with the length of the slice
FromBytesTooShort_NoSliceLen(raw_data_len, total) ==
    total < PUS_TC_MIN_LEN_WITHOUT_APP_DATA

\* the length checks of PusTc::from_bytes on the declared total length
FromBytesTooShort(raw_data_len, total) ==
    raw_data_len < total \/ total < PUS_TC_MIN_LEN_WITHOUT_APP_DATA

\* a decoded packet left in automatic checksum mode
DecodedPusTc_Auto(sp_header, sec_header, raw_data, app_data, crc) ==
    [sp_header |-> sp_header,
     sec_header |-> SecHeaderTryFromZc(sec_header),
     raw_data |-> Some(raw_data),
     app_data |-> app_data,
     calc_crc_on_serialization |-> TRUE,
     crc16 |-> Some(crc)]

\* the packet PusTc::from_bytes builds from what it parsed
DecodedPusTc(sp_header, sec_header, raw_data, app_data, crc) ==
    [sp_header |-> sp_header,
     sec_header |-> SecHeaderTryFromZc(sec_header),
     raw_data |-> Some(raw_data),
     app_data |-> app_data,
     calc_crc_on_serialization |-> FALSE,
     crc16 |-> Some(crc)]

\* a from_bytes that does not verify the checksum
FromBytesVerify_Skipped(raw_data, crc16) == Ok(0)

\* the last step of PusTc::from_bytes: the checksum of the raw bytes is
\* verified against the one read from the trailer
FromBytesVerify(raw_data, crc16) == verify_crc16_from_raw(raw_data, crc16)

\* PusTc::from_bytes: the result (val is the found length) and the packet
from_bytes(slice) ==
    LET raw_data_len == Len(slice)
    IN  IF raw_data_len < PUS_TC_MIN_LEN_WITHOUT_APP_DATA
        THEN [res |-> Err("RawDataTooShort", raw_data_len), tc |-> None]
        ELSE
        LET sp_header == SpHeaderFromBytes(Slice(slice, 0, CCSDS_HEADER_LEN))
            idx1 == CCSDS_HEADER_LEN
            total == total_len(sp_header)
        IN  IF FromBytesTooShort(raw_data_len, total)
            THEN [res |-> Err("RawDataTooShort", raw_data_len), tc |-> None]
            ELSE IF ~InRange(slice, 0, total)
            THEN [res |-> Panic("slice index out of range"), tc |-> None]
            ELSE
            LET sec_header == Slice(slice, idx1, idx1 + PUC_TC_SECONDARY_HEADER_LEN)
                idx2 == idx1 + PUC_TC_SECONDARY_HEADER_LEN
                raw_data == Slice(slice, 0, total)
                app_data == user_data_from_raw(idx2, total, raw_data_len, slice)
                crc == crc_from_raw_data(raw_data)
            IN  IF app_data.status # "Ok" THEN [res |-> app_data, tc |-> None]
                ELSE IF crc.status # "Ok" THEN [res |-> crc, tc |-> None]
                ELSE
                LET pus_tc == DecodedPusTc(sp_header, sec_header, raw_data,
                                           app_data.val, crc.val)
                    v == FromBytesVerify(raw_data, crc.val)
                IN  IF v.status # "Ok" THEN [res |-> v, tc |-> None]
                    ELSE [res |-> Ok(total), tc |-> Some(pus_tc)]

\* PartialEq for PusTc
PusTcEq(a, b) ==
    /\ a.sp_header = b.sp_header
    /\ a.sec_header = b.sec_header
    /\ a.app_data = b.app_data


(***************************************************************************)
(* State.                                                                  *)
(***************************************************************************)
VARIABLES
    sph,    \* the caller's SpHeader, handed to PusTc::new by &mut
    tc,     \* Option: the packet built by PusTc::new
    buf,    \* the destination slice of write_to_bytes
    vec,    \* the Vec<u8> of append_to_vec
    ret,    \* the last call on the packet and what it returned
    dec,    \* the last PusTc::from_bytes call: slice length, result, packet
    flip,   \* Option: the bit of buf flipped after the packet was written
    stamp   \* Option: the CdsShortTimeProvider built by new

vars == << sph, tc, buf, vec, ret, dec, flip, stamp >>

\* arg is the argument the claims need: set_ccsds_len of new (1 or 0), the
\* slice length of write_to_bytes, the value of a setter
Call(op, arg, r) ==
    [op |-> op, arg |-> arg, status |-> r.status, err |-> r.err, val |-> r.val,
     expected |-> r.expected, found |-> r.found]

NotDecoded == [called |-> FALSE]
Decoded(n, r) == [called |-> TRUE, n |-> n, res |-> r.res, tc |-> r.tc]

\* the calls that build or change the packet
BuildOps ==
    {"new", "set_ack_field", "set_source_id", "set_apid", "calc_crc_on_serialization",
     "update_ccsds_data_len", "calc_own_crc16", "update_packet_fields"}

Building == tc.some /\ ret.op \in BuildOps /\ ret.status # "Panic"

(***************************************************************************)
(* Inputs.                                                                 *)
(***************************************************************************)
\* the caller's primary headers
SpHeaderInputs ==
    {tc_unseg(2, 52, 0), tc_unseg(2, 52, 8), tm_unseg(2047, 16383, 65535)}

\* secondary headers: from the constructors, and written as struct literals
\* (the fields are public)
SecHeaderInputs ==
    {SecHeaderNewSimple(17, 1), SecHeaderNew(200, 255, 31, 43981),
     SecHeaderNew(17, 1, 3, 0)}
    \cup {[SecHeaderNewSimple(17, 1) EXCEPT !.ack = a] : a \in {16, 255}}
    \cup {[SecHeaderNewSimple(17, 1) EXCEPT !.version = PusA]}

PayloadBytes == {1, 255}

RECURSIVE SeqsUpTo(_, _)
\* the sequences over S of length at most n
SeqsUpTo(S, n) ==
    IF n = 0 THEN {<< >>}
    ELSE LET T == SeqsUpTo(S, n - 1)
         IN  T \cup {Append(t, x) : t \in {u \in T : Len(u) = n - 1}, x \in S}

\* application data: absent, or a slice of length 0..MaxPayload
AppDataInputs == {None} \cup {Some(d) : d \in SeqsUpTo(PayloadBytes, MaxPayload)}

Zeroed(n) == [i \in 1..n |-> 0]

\* destination slices, zeroed like the tests': empty, and from one byte short
\* of the smallest packet up to MaxBuf bytes
BufInputs ==
    {Zeroed(n) : n \in {0} \cup ((PUS_TC_MIN_LEN_WITHOUT_APP_DATA - 1)..MaxBuf)}

Init ==
    /\ sph \in SpHeaderInputs
    /\ tc = None
    /\ buf = << >>
    /\ vec = << >>
    /\ ret = Call("none", 0, Ok(0))
    /\ dec = NotDecoded
    /\ flip = None
    /\ stamp = None

(***************************************************************************)
(* Actions: one per method of PusTc.                                       *)
(***************************************************************************)
\* PusTc::new(&mut sph, sec_header, app_data, set_ccsds_len)
New(sec_header, app_data, set_ccsds_len) ==
    /\ ~tc.some /\ ret.op = "none"
    /\ LET h == set_sec_header_flag(set_packet_type(sph, Tc))
           p == [sp_header |-> h,
                 raw_data |-> None,
                 app_data |-> app_data,
                 sec_header |-> CopySecHeader(sec_header),
                 calc_crc_on_serialization |-> TRUE,
                 crc16 |-> None]
       IN  /\ sph' = h
           /\ IF set_ccsds_len
              THEN \E r \in DataLenOutcomes(p) :
                     /\ tc' = IF r.status = "Ok" THEN Some(WithDataLen(p, r)) ELSE None
                     /\ ret' = Call("new", 1, IF r.status = "Ok" THEN Ok(0) ELSE r)
              ELSE tc' = Some(p) /\ ret' = Call("new", 0, Ok(0))
    /\ UNCHANGED << buf, vec, dec, flip, stamp >>

\* PusTc::new_simple(&mut sph, service, subservice, app_data, set_ccsds_len)
NewSimple(service, subservice, app_data, set_ccsds_len) ==
    New(SecHeaderNew(service, subservice, ACK_ALL, 0), app_data, set_ccsds_len)

\* PusTc::set_ack_field(ack): val is 1 for true, 0 for false
SetAckField(ack) ==
    /\ Building
    /\ IF ack > 15
       THEN tc' = tc /\ ret' = Call("set_ack_field", ack, Ok(0))
       ELSE /\ tc' = Some([tc.val EXCEPT !.sec_header.ack = BitAnd(ack, 15)])
            /\ ret' = Call("set_ack_field", ack, Ok(1))
    /\ UNCHANGED << sph, buf, vec, dec, flip, stamp >>

\* PusTc::set_source_id(source_id)
SetSourceId(source_id) ==
    /\ Building
    /\ tc' = Some([tc.val EXCEPT !.sec_header.source_id = source_id])
    /\ ret' = Call("set_source_id", source_id, Ok(0))
    /\ UNCHANGED << sph, buf, vec, dec, flip, stamp >>

\* PusTc::set_apid(apid), of the primary header setters: val is 1 for true,
\* 0 for false (an APID of more than 11 bits is refused)
SetApid(apid) ==
    /\ Building
    /\ IF apid > 2047
       THEN tc' = tc /\ ret' = Call("set_apid", apid, Ok(0))
       ELSE /\ tc' = Some([tc.val EXCEPT !.sp_header.apid = apid])
            /\ ret' = Call("set_apid", apid, Ok(1))
    /\ UNCHANGED << sph, buf, vec, dec, flip, stamp >>

\* an assignment to the public field calc_crc_on_serialization
SetCalcCrcOnSerialization(b) ==
    /\ Building
    /\ tc' = Some([tc.val EXCEPT !.calc_crc_on_serialization = b])
    /\ ret' = Call("calc_crc_on_serialization", IF b THEN 1 ELSE 0, Ok(0))
    /\ UNCHANGED << sph, buf, vec, dec, flip, stamp >>

\* PusTc::update_ccsds_data_len()
UpdateCcsdsDataLen ==
    /\ Building
    /\ \E r \in DataLenOutcomes(tc.val) :
         /\ tc' = IF r.status = "Ok" THEN Some(WithDataLen(tc.val, r)) ELSE tc
         /\ ret' = Call("update_ccsds_data_len", 0, IF r.status = "Ok" THEN Ok(0) ELSE r)
    /\ UNCHANGED << sph, buf, vec, dec, flip, stamp >>

\* PusTc::calc_own_crc16()
CalcOwnCrc16 ==
    /\ Building
    /\ LET r == calc_own_crc16(tc.val)
       IN  tc' = Some(r.tc) /\ ret' = Call("calc_own_crc16", 0, r.res)
    /\ UNCHANGED << sph, buf, vec, dec, flip, stamp >>

\* PusTc::update_packet_fields(): update_ccsds_data_len, then calc_own_crc16
UpdatePacketFields ==
    /\ Building
    /\ \E r \in DataLenOutcomes(tc.val) :
         IF r.status # "Ok"
         THEN tc' = tc /\ ret' = Call("update_packet_fields", 0, r)
         ELSE LET c == calc_own_crc16(WithDataLen(tc.val, r))
              IN  tc' = Some(c.tc) /\ ret' = Call("update_packet_fields", 0, c.res)
    /\ UNCHANGED << sph, buf, vec, dec, flip, stamp >>

\* PusTc::write_to_bytes(slice)
WriteToBytes(slice) ==
    /\ Building
    /\ LET r == write_to_bytes(tc.val, slice)
       IN  buf' = r.slice /\ ret' = Call("write_to_bytes", Len(slice), r.res)
    /\ UNCHANGED << sph, tc, vec, dec, flip, stamp >>

\* PusTc::append_to_vec(&mut vec), on the vector as the calls before left it
AppendToVec ==
    /\ tc.some /\ ret.status # "Panic"
    /\ ret.op \in BuildOps \cup {"append_to_vec"}
    /\ Len(vec) <= MaxVec
    /\ LET r == append_to_vec(tc.val, vec)
       IN  vec' = r.vec /\ ret' = Call("append_to_vec", Len(vec), r.res)
    /\ UNCHANGED << sph, tc, buf, dec, flip, stamp >>

\* one bit of the written packet, before its checksum trailer, is flipped
FlipBit(i, k) ==
    /\ ret.op = "write_to_bytes" /\ ret.status = "Ok"
    /\ ~flip.some /\ ~dec.called
    /\ i < ret.val - CRC_LEN
    /\ buf' = [buf EXCEPT ![i + 1] = BitXor(@, 2 ^ k)]
    /\ flip' = Some([idx |-> i, bit |-> k])
    /\ UNCHANGED << sph, tc, vec, ret, dec, stamp >>

\* PusTc::from_bytes(&buf[0..n]) on what write_to_bytes left in buf
FromBytes(n) ==
    /\ ret.op = "write_to_bytes" /\ ~dec.called
    /\ n <= Len(buf)
    /\ dec' = Decoded(n, from_bytes(Slice(buf, 0, n)))
    /\ UNCHANGED << sph, tc, buf, vec, ret, flip, stamp >>

(***************************************************************************)
(* Spec: a packet is built, changed, encoded into a slice or appended to a *)
(* vector, and the slice is decoded.                                       *)
(***************************************************************************)
Next ==
    \/ \E sec \in SecHeaderInputs, app \in AppDataInputs, len \in BOOLEAN :
         New(sec, app, len)
    \/ \E service \in {17}, subservice \in {1}, app \in AppDataInputs,
          len \in BOOLEAN :
         NewSimple(service, subservice, app, len)
    \/ \E b \in BOOLEAN : SetCalcCrcOnSerialization(b)
    \/ UpdateCcsdsDataLen
    \/ CalcOwnCrc16
    \/ UpdatePacketFields
    \/ \E slice \in BufInputs : WriteToBytes(slice)
    \/ AppendToVec
    \/ FromBytes(Len(buf))

Spec == Init /\ [][Next]_vars

(***************************************************************************)
(* SpecWire: a packet is encoded, one bit of the encoding may be flipped,  *)
(* and a prefix of the slice is decoded.                                   *)
(***************************************************************************)
WireSecHeaderInputs == {SecHeaderNewSimple(17, 1), SecHeaderNew(200, 255, 3, 43981)}

InitWire ==
    /\ sph = tc_unseg(2, 52, 0)
    /\ tc = None
    /\ buf = << >>
    /\ vec = << >>
    /\ ret = Call("none", 0, Ok(0))
    /\ dec = NotDecoded
    /\ flip = None
    /\ stamp = None

\* from_bytes on any prefix of the slice; on the whole slice after a flip
FromBytesPrefix(n) == (flip.some => n = Len(buf)) /\ FromBytes(n)

NextWire ==
    \/ \E sec \in WireSecHeaderInputs, app \in AppDataInputs, len \in BOOLEAN :
         New(sec, app, len)
    \/ \E slice \in BufInputs : WriteToBytes(slice)
    \/ \E i \in 0..(MaxBuf - 1), k \in 0..7 : FlipBit(i, k)
    \/ \E n \in 0..MaxBuf : FromBytesPrefix(n)

SpecWire == InitWire /\ [][NextWire]_vars

(***************************************************************************)
(* SpecLen: packets are built and their length field is updated, also with *)
(* application data so long that the packet length reaches the end of the  *)
(* u16 range of the length arithmetic.  Nothing is encoded.                *)
(***************************************************************************)
\* payload lengths: none, the test's 3 bytes, and around the u16 range:
\* len_packed() = 65535, 65536 (0 as u16), 65542 (the longest packet the
\* length field can declare) and 65543 (7 as u16)
LenPayloadLens ==
    {0, 3, U16 - 1 - PUS_TC_MIN_LEN_WITHOUT_APP_DATA,
     U16 - PUS_TC_MIN_LEN_WITHOUT_APP_DATA,
     U16 + CCSDS_HEADER_LEN - PUS_TC_MIN_LEN_WITHOUT_APP_DATA,
     U16 + CCSDS_HEADER_LEN + 1 - PUS_TC_MIN_LEN_WITHOUT_APP_DATA}

LenAppDataInputs == {None} \cup {Some(Zeroed(n)) : n \in LenPayloadLens}

LenSecHeaderInputs == {SecHeaderNew(17, 1, 3, 258), SecHeaderNew(200, 255, 0, 0)}

NextLen ==
    \/ \E sec \in LenSecHeaderInputs, app \in LenAppDataInputs, len \in BOOLEAN :
         New(sec, app, len)
    \/ \E service \in {17}, subservice \in {1}, app \in LenAppDataInputs,
          len \in BOOLEAN :
         NewSimple(service, subservice, app, len)
    \/ \E ack \in {3, 16} : SetAckField(ack)
    \/ SetSourceId(65535)
    \/ \E b \in BOOLEAN : SetCalcCrcOnSerialization(b)
    \/ UpdateCcsdsDataLen

SpecLen == Init /\ [][NextLen]_vars

(***************************************************************************)
(* What the claims speak of, stated apart from the operators above.        *)
(***************************************************************************)
PayloadLen(p) == IF p.app_data.some THEN Len(p.app_data.val) ELSE 0
\* 6 byte primary header, 5 secondary header bytes, payload, 2 byte checksum
ExpectedLen(p) == 13 + PayloadLen(p)
\* the total length the primary header declares: length field + 7
DeclaredLen(h) == h.data_len + 7
\* the packet was written whole into buf by the last write_to_bytes
Written == tc.some /\ ret.op = "write_to_bytes" /\ ret.status = "Ok"
\* the packet is in automatic checksum mode with a current length field, as
\* PusTc::new with set_ccsds_len = true leaves it
AutoCurrent(p) ==
    /\ p.calc_crc_on_serialization
    /\ p.sp_header.data_len = ExpectedLen(p) - 7
    /\ p.sec_header.version = PusC

(***************************************************************************)
(* C1: encode/decode round trip.  For every packet in automatic checksum   *)
(* mode whose length field new set (set_ccsds_len = true), with an absent  *)
(* payload or one of length 0..N, write_to_bytes into a large enough       *)
(* buffer followed by from_bytes on that buffer succeeds, the decoded      *)
(* packet compares equal to the original, and the returned length is       *)
(* len_packed().  Stated for ack values of at most 4 bits.                 *)
(***************************************************************************)
C1_RoundTrip ==
    (/\ Written /\ dec.called /\ dec.n = Len(buf)
     /\ AutoCurrent(tc.val) /\ tc.val.sec_header.ack <= 15)
    => /\ dec.res.status = "Ok"
       /\ dec.tc.some
       /\ PusTcEq(tc.val, dec.tc.val)
       /\ dec.res.val = ExpectedLen(tc.val)

\* the round trip of the packets whose payload is absent or not empty
C1_RoundTripNonEmpty ==
    (/\ Written /\ dec.called /\ dec.n = Len(buf)
     /\ AutoCurrent(tc.val) /\ tc.val.sec_header.ack <= 15
     /\ tc.val.app_data # Some(<< >>))
    => /\ dec.res.status = "Ok"
       /\ dec.tc.some
       /\ PusTcEq(tc.val, dec.tc.val)
       /\ dec.res.val = ExpectedLen(tc.val)

(***************************************************************************)
(* C2: manual checksum discipline.  A write_to_bytes into a large enough   *)
(* slice with calc_crc_on_serialization = false and no cached checksum     *)
(* fails with CrcCalculationMissing; with calc_crc_on_serialization =      *)
(* false and calc_own_crc16() called immediately before, it succeeds and   *)
(* writes the two trailer bytes that automatic mode writes for the same    *)
(* headers and payload.                                                    *)
(***************************************************************************)
Trailer(s, n) == Slice(s, n - 2, n)

C2_Step ==
    (/\ tc.some /\ ret'.op = "write_to_bytes" /\ ret.op # "write_to_bytes"
     /\ ~tc.val.calc_crc_on_serialization
     /\ tc.val.sec_header.version = PusC
     /\ Len(buf') >= ExpectedLen(tc.val))
    => /\ ~tc.val.crc16.some
          => ret'.status = "Err" /\ ret'.err = "CrcCalculationMissing"
       /\ (ret.op = "calc_own_crc16" /\ ret.status = "Ok")
          => LET n == ExpectedLen(tc.val)
                 auto == write_to_bytes(
                             [tc.val EXCEPT !.calc_crc_on_serialization = TRUE],
                             Zeroed(n))
             IN  /\ ret'.status = "Ok" /\ ret'.val = n
                 /\ auto.res.status = "Ok"
                 /\ Trailer(buf', n) = Trailer(auto.slice, n)
                 /\ Trailer(buf', n) = U16ToBe(calc_pus_crc16(Slice(buf', 0, n - 2)))

C2_ManualChecksum == [][C2_Step]_vars

\* a packet in manual mode, written right after calc_own_crc16 and with
\* application data
C2_Witness ==
    /\ Written
    /\ ~tc.val.calc_crc_on_serialization
    /\ tc.val.crc16.some
    /\ PayloadLen(tc.val) > 0
    /\ Trailer(buf, ret.val) = U16ToBe(tc.val.crc16.val)
    /\ Trailer(buf, ret.val) = U16ToBe(calc_pus_crc16(Slice(buf, 0, ret.val - 2)))

(***************************************************************************)
(* C5: append_to_vec has the semantics of write_to_bytes for every packet  *)
(* and every vector, also one that already holds bytes: the bytes in the   *)
(* vector stay, exactly len_packed() bytes are appended, they are the      *)
(* bytes write_to_bytes writes, len_packed() is returned, and the call     *)
(* never fails or aborts because of the vector's prior length.             *)
(***************************************************************************)
C5_Step ==
    (tc.some /\ vec' # vec /\ tc.val.sec_header.version = PusC)
    => LET n == ExpectedLen(tc.val)
           w == write_to_bytes(tc.val, Zeroed(n))
       IN  /\ ret'.op = "append_to_vec"
           /\ ret'.status = w.res.status
           /\ w.res.status = "Ok"
              => /\ ret'.val = n
                 /\ vec' = vec \o w.slice

C5_AppendLikeWrite == [][C5_Step]_vars

(***************************************************************************)
(* C7: output buffer check.  For every packet and every destination slice  *)
(* shorter than len_packed(), write_to_bytes fails with ToSliceTooSmall,   *)
(* expected = len_packed() = 13 + payload length and found = the slice     *)
(* length; for a slice of at least len_packed() bytes it does not return   *)
(* this error.                                                             *)
(***************************************************************************)
C7_OutputBufferCheck ==
    (tc.some /\ ret.op = "write_to_bytes")
    => IF Len(buf) < ExpectedLen(tc.val)
       THEN /\ ret.status = "Err" /\ ret.err = "ToSliceTooSmall"
            /\ ret.expected = ExpectedLen(tc.val)
            /\ ret.found = Len(buf)
       ELSE ret.err # "ToSliceTooSmall"

\* a packet with application data and a slice one byte too short
C7_Witness ==
    /\ tc.some /\ ret.op = "write_to_bytes"
    /\ PayloadLen(tc.val) > 0
    /\ Len(buf) = ExpectedLen(tc.val) - 1
    /\ ret.err = "ToSliceTooSmall" /\ ret.expected = Len(buf) + 1

(***************************************************************************)
(* C10: secondary header wire layout.  For every secondary header with     *)
(* version PusC, whatever 0..255 its ack field holds, the encoded byte 6   *)
(* is (version << 4) | (ack & 0xF), its high nibble the version 0b0010,    *)
(* byte 7 is the service, byte 8 the subservice, bytes 9..10 the source id *)
(* big endian.                                                             *)
(***************************************************************************)
C10_SecHeaderLayout ==
    (Written /\ tc.val.sec_header.version = PusC)
    => LET h == tc.val.sec_header
       IN  /\ buf[7] = 2 * 16 + (h.ack % 16)
           /\ buf[7] \div 16 = 2
           /\ buf[8] = h.service
           /\ buf[9] = h.subservice
           /\ buf[10] = h.source_id \div 256
           /\ buf[11] = h.source_id % 256

\* the layout for the ack values of at most 4 bits
C10_SecHeaderLayoutAck4 ==
    (Written /\ tc.val.sec_header.version = PusC /\ tc.val.sec_header.ack <= 15)
    => LET h == tc.val.sec_header
       IN  /\ buf[7] = 2 * 16 + (h.ack % 16)
           /\ buf[8] = h.service
           /\ buf[9] = h.subservice
           /\ buf[10] = h.source_id \div 256
           /\ buf[11] = h.source_id % 256

(***************************************************************************)
(* C3: checksum sensitivity.  For every packet encoded by write_to_bytes,  *)
(* flipping any single bit of the encoded bytes before the 2 byte trailer  *)
(* (primary header including its length field, secondary header, payload)  *)
(* makes from_bytes on that buffer fail with IncorrectCrc.  Stated for the *)
(* packets whose unflipped encoding from_bytes accepts: automatic checksum *)
(* mode and a current length field.                                        *)
(***************************************************************************)
FlippedDecode ==
    /\ Written /\ AutoCurrent(tc.val)
    /\ flip.some /\ dec.called /\ dec.n = Len(buf)

C3_AnyBitFlip ==
    FlippedDecode => dec.res.status = "Err" /\ dec.res.err = "IncorrectCrc"

\* the bytes of the primary header's length field
LengthField == {4, 5}

\* C3 as amended: the flipped bit lies outside the length field
C3_BitFlipOutsideLengthField ==
    (FlippedDecode /\ flip.val.idx \notin LengthField)
    => dec.res.status = "Err" /\ dec.res.err = "IncorrectCrc"

\* a bit of the payload of a packet in a longer buffer was flipped
C3_Witness ==
    /\ FlippedDecode
    /\ flip.val.idx >= 11
    /\ Len(buf) > ExpectedLen(tc.val)
    /\ dec.res.err = "IncorrectCrc"

(***************************************************************************)
(* C6: decode length rejection.  from_bytes(buf) fails with                *)
(* RawDataTooShort(buf.len()) whenever buf.len() < 13, or the declared     *)
(* total length of the primary header is < 13, or it is > buf.len(); it    *)
(* then neither reads beyond buf nor produces a packet.                    *)
(***************************************************************************)
\* the slice handed to the last from_bytes
DecInput == Slice(buf, 0, dec.n)

C6_DecodeLengthRejection ==
    (dec.called /\
       (\/ dec.n < 13
        \/ U16FromBe(DecInput[5], DecInput[6]) + 7 < 13
        \/ U16FromBe(DecInput[5], DecInput[6]) + 7 > dec.n))
    => /\ dec.res.status = "Err"
       /\ dec.res.err = "RawDataTooShort"
       /\ dec.res.val = dec.n
       /\ ~dec.tc.some

\* a slice of at least 13 bytes whose header declares more bytes than it has
C6_Witness ==
    /\ dec.called /\ dec.n >= 13
    /\ U16FromBe(DecInput[5], DecInput[6]) + 7 >= 13
    /\ U16FromBe(DecInput[5], DecInput[6]) + 7 > dec.n
    /\ dec.res.err = "RawDataTooShort" /\ dec.res.val = dec.n

(***************************************************************************)
(* C8: state of a decoded packet.  On every successful from_bytes(buf)     *)
(* returning (p, n): p.raw_bytes() is exactly buf[0..n], p's               *)
(* calc_crc_on_serialization is false, p.crc16() is Some of the big endian *)
(* value at buf[n-2..n], and p.user_data() is buf[11..n-2] when n > 13 and *)
(* None when n = 13.                                                       *)
(***************************************************************************)
C8_DecodedState ==
    (dec.called /\ dec.res.status = "Ok")
    => /\ dec.tc.some
       /\ LET n == dec.res.val
              p == dec.tc.val
          IN  /\ n >= 13 /\ n <= dec.n
              /\ p.raw_data = Some(Slice(DecInput, 0, n))
              /\ ~p.calc_crc_on_serialization
              /\ p.crc16 = Some(DecInput[n - 1] * 256 + DecInput[n])
              /\ IF n > 13
                 THEN p.app_data = Some(Slice(DecInput, 11, n - 2))
                 ELSE p.app_data = None

\* a packet with application data decoded from a slice longer than it
C8_Witness ==
    /\ dec.called /\ dec.res.status = "Ok"
    /\ dec.res.val > 13 /\ dec.res.val < dec.n
    /\ Len(dec.tc.val.raw_data.val) = dec.res.val

(***************************************************************************)
(* C4: length accounting.  For every payload length len_packed() equals    *)
(* 13 + payload length, and after update_ccsds_data_len() the total length *)
(* the primary header declares (length field + 7) equals len_packed().     *)
(***************************************************************************)
C4_LengthAccounting ==
    /\ tc.some => len_packed(tc.val) = ExpectedLen(tc.val)
    /\ ret.op = "update_ccsds_data_len"
       => /\ ret.status = "Ok"
          /\ DeclaredLen(tc.val.sp_header) = ExpectedLen(tc.val)

\* the same for the packets whose length fits the u16 the code computes in
C4_LengthAccountingU16 ==
    /\ tc.some => len_packed(tc.val) = ExpectedLen(tc.val)
    /\ (ret.op = "update_ccsds_data_len" /\ ExpectedLen(tc.val) < U16)
       => /\ ret.status = "Ok"
          /\ DeclaredLen(tc.val.sp_header) = ExpectedLen(tc.val)

(***************************************************************************)
(* C9: constructor effects.  PusTc::new forces packet type TC and the      *)
(* secondary header flag on the caller's header and on the packet's copy;  *)
(* the new packet has no cached checksum, automatic checksum mode and no   *)
(* raw bytes; with set_ccsds_len the length field is len_packed() - 7,     *)
(* without it the length field keeps the caller's value.                   *)
(***************************************************************************)
C9_Effects(p) ==
    /\ sph.ptype = Tc /\ sph.sec_header_flag
    /\ p.sp_header.ptype = Tc /\ p.sp_header.sec_header_flag
    /\ p.crc16 = None
    /\ p.calc_crc_on_serialization
    /\ p.raw_data = None
    /\ IF ret.arg = 1
       THEN p.sp_header.data_len = ExpectedLen(p) - 7
       ELSE p.sp_header.data_len = sph.data_len

C9_ConstructorEffects ==
    ret.op = "new" => ret.status = "Ok" /\ tc.some /\ C9_Effects(tc.val)

(***************************************************************************)
(* Decoding packets that were not written by this crate: the slice handed  *)
(* to from_bytes carries any version nibble, packet type and secondary     *)
(* header flag, and a trailer that matches its bytes.                      *)
(***************************************************************************)
\* PusVersion of the ecss module: EsaPus = 0, PusA = 1, PusC = 2, Invalid = 0b1111
EsaPus == 0
Invalid == 15

\* PusVersion::try_from(u8)
PusVersionTryFrom(value) ==
    IF value \in {EsaPus, PusA, PusC} THEN Ok(value) ELSE Err("()", value)

\* zc::PusTcSecondaryHeader::pus_version, on its 5 bytes:
\* PusVersion::try_from(self.version_ack >> 4 & 0b1111).unwrap_or(PusVersion::Invalid)
ZcPusVersion(b) ==
    LET r == PusVersionTryFrom(BitAnd(b[1] \div 16, 15))
    IN  IF r.status = "Ok" THEN r.val ELSE Invalid

\* PusTc::pus_version, delegated to PusTcSecondaryHeader::pus_version
pus_version(p) == p.sec_header.version

\* PusTc::raw_bytes
raw_bytes(p) == p.raw_data

\* the packets on the wire: header, secondary header, payload and the
\* checksum of all of it
RxFrame(h, sec, payload) ==
    LET n == CCSDS_HEADER_LEN + PUC_TC_SECONDARY_HEADER_LEN + Len(payload) + CRC_LEN
        body == SpHeaderToBytes([h EXCEPT !.data_len = n - CCSDS_HEADER_LEN - 1])
                  \o sec \o payload
    IN  body \o U16ToBe(calc_pus_crc16(body))

RxVersionNibbles == {0, 1, 2, 3, 15}

RxSpHeaders ==
    {[h EXCEPT !.sec_header_flag = f] :
        h \in {tc_unseg(2, 52, 0), tm_unseg(2047, 16383, 0)}, f \in BOOLEAN}

RxSecHeaders ==
    {<< v * 16 + 3, 17, 1 >> \o U16ToBe(source_id) :
        v \in RxVersionNibbles, source_id \in {0, 43981}}

RxPayloads == {<< >>, << 1, 2, 3 >>}

\* the frames, alone in the slice or followed by two more bytes
RxInputs ==
    {RxFrame(h, sec, payload) \o pad :
        h \in RxSpHeaders, sec \in RxSecHeaders, payload \in RxPayloads,
        pad \in {<< >>, << 0, 0 >>}}

InitRx ==
    /\ sph = tc_unseg(2, 52, 0)
    /\ tc = None
    /\ buf \in RxInputs
    /\ vec = << >>
    /\ ret = Call("none", 0, Ok(0))
    /\ dec = NotDecoded
    /\ flip = None
    /\ stamp = None

\* PusTc::from_bytes on a received slice
FromBytesRx ==
    /\ ~tc.some /\ ret.op = "none" /\ ~dec.called
    /\ dec' = Decoded(Len(buf), from_bytes(buf))
    /\ UNCHANGED << sph, tc, buf, vec, ret, flip, stamp >>

\* PusTc::write_to_bytes on the packet from_bytes returned, unmodified
WriteDecoded(slice) ==
    /\ dec.called /\ dec.tc.some /\ ret.op = "none"
    /\ LET r == write_to_bytes(dec.tc.val, slice)
       IN  /\ buf' = r.slice
           /\ ret' = Call("write_to_bytes", Len(slice), r.res)
    /\ UNCHANGED << sph, tc, vec, dec, flip, stamp >>

NextRx ==
    \/ FromBytesRx
    \/ \E extra \in {0, 1, 3} : WriteDecoded(Zeroed(dec.res.val + extra))

SpecRx == InitRx /\ [][NextRx]_vars

\* byte 6 of the slice the packet was decoded from
RxVersionAck == raw_bytes(dec.tc.val).val[CCSDS_HEADER_LEN + 1]

(***************************************************************************)
(* C11: version on decode.  from_bytes never fails because of the version  *)
(* nibble (the high 4 bits of byte 6), and pus_version() of the decoded    *)
(* packet reports the nibble of the input: the known version it maps to,   *)
(* PusVersion::Invalid when it maps to none.                               *)
(***************************************************************************)
C11_VersionOnDecode ==
    dec.called
    => /\ dec.res.status = "Ok" /\ dec.tc.some
       /\ pus_version(dec.tc.val) = ZcPusVersion(<< RxVersionAck >>)

\* the part the code keeps: no version nibble makes from_bytes fail
C11_VersionNeverRejected == dec.called => dec.res.status = "Ok" /\ dec.tc.some

\* what the decoded packet reports instead: always PUS_VERSION
C11_ReportsPusC == (dec.called /\ dec.tc.some) => pus_version(dec.tc.val) = PUS_VERSION

\* a packet decoded from a slice whose version nibble is not the one of PUS C
C11_Witness ==
    dec.called /\ dec.tc.some /\ RxVersionAck \div 16 \notin {EsaPus, PusA, PusC}

(***************************************************************************)
(* C18: decode then encode.  For every slice on which from_bytes succeeds  *)
(* returning (p, n), write_to_bytes of the unmodified p into a destination *)
(* of at least n bytes succeeds, returns n and writes the bytes of         *)
(* p.raw_bytes(), whatever version nibble, packet type and secondary       *)
(* header flag the slice carried.                                          *)
(***************************************************************************)
\* write_to_bytes was called on the decoded packet with room for its n bytes
ReEncoded == dec.called /\ dec.tc.some /\ ret.op = "write_to_bytes"
                /\ ret.arg >= dec.res.val

C18_DecodeThenEncode ==
    ReEncoded
    => /\ ret.status = "Ok"
       /\ ret.val = dec.res.val
       /\ Slice(buf, 0, dec.res.val) = raw_bytes(dec.tc.val).val

\* the same for the slices that carry the version nibble of PUS C
C18_DecodeThenEncodePusC ==
    (ReEncoded /\ RxVersionAck \div 16 = PUS_VERSION)
    => /\ ret.status = "Ok"
       /\ ret.val = dec.res.val
       /\ Slice(buf, 0, dec.res.val) = raw_bytes(dec.tc.val).val

\* with any other nibble the call succeeds and returns n, and byte 6 is the
\* only byte that differs from the input
C18_OnlyVersionNibbleDiffers ==
    ReEncoded
    => /\ ret.status = "Ok"
       /\ ret.val = dec.res.val
       /\ \A i \in 1..dec.res.val :
            i # CCSDS_HEADER_LEN + 1 => buf[i] = raw_bytes(dec.tc.val).val[i]
       /\ buf[CCSDS_HEADER_LEN + 1] = PUS_VERSION * 16 + (RxVersionAck % 16)

(***************************************************************************)
(* CDS short time stamp (src/src/time.rs).  A DateTime<Utc> is the instant *)
(* it denotes: whole seconds since 1970-01-01T00:00:00Z and nanoseconds.   *)
(* Day counts are sampled up to MaxDays, which keeps every product of the  *)
(* i64 arithmetic within the integers of the model checker.                *)
(***************************************************************************)
MaxDays == 20000

CDS_SHORT_LEN == 7
DAYS_CCSDS_TO_UNIX == -4383
SECONDS_PER_DAY == 86400
\* CcsdsTimeCodes::Cds
Cds == 4

unix_to_ccsds_days(unix_days) == unix_days - DAYS_CCSDS_TO_UNIX

\* a conversion that takes the CCSDS day count for the UNIX one
ccsds_to_unix_days_Unshifted(ccsds_days) == ccsds_days

ccsds_to_unix_days(ccsds_days) == ccsds_days + DAYS_CCSDS_TO_UNIX

\* u32::to_be_bytes
U32ToBe(v) ==
    << (v \div 16777216) % U8, (v \div U16) % U8, (v \div U8) % U8, v % U8 >>

\* Utc.timestamp(secs, nsecs)
UtcTimestamp(secs, nsecs) == [secs |-> secs, nanos |-> nsecs]

\* the calendar date of a day count since 1970-01-01, as Datelike::year(),
\* month() and day() give it (proleptic Gregorian calendar)
CivilFromDays(days) ==
    LET z == days + 719468
        era == z \div 146097
        doe == z - era * 146097
        yoe == (doe - doe \div 1460 + doe \div 36524 - doe \div 146096) \div 365
        doy == doe - (365 * yoe + yoe \div 4 - yoe \div 100)
        mp == (5 * doy + 2) \div 153
        m == IF mp < 10 THEN mp + 3 ELSE mp - 9
    IN  [year |-> yoe + era * 400 + (IF m <= 2 THEN 1 ELSE 0),
         month |-> m,
         day |-> doy - (153 * mp + 2) \div 5 + 1]

\* year(), month(), day(), hour(), minute(), second() of a DateTime<Utc>
DateTimeFields(dt) ==
    LET date == CivilFromDays(dt.secs \div SECONDS_PER_DAY)
        sod == dt.secs % SECONDS_PER_DAY
    IN  [year |-> date.year, month |-> date.month, day |-> date.day,
         hour |-> sod \div 3600, minute |-> (sod \div 60) % 60, second |-> sod % 60]

\* CdsShortTimeProvider::calc_unix_seconds: the value left in self.unix_seconds
calc_unix_seconds(unix_days_seconds, ms_of_day) ==
    LET seconds_of_day == ms_of_day \div 1000
    IN  IF unix_days_seconds < 0
        THEN unix_days_seconds - seconds_of_day
        ELSE unix_days_seconds + seconds_of_day

\* CdsShortTimeProvider::calc_date_time: the value left in self.date_time
calc_date_time(unix_days_seconds, ms_since_last_second) ==
    IF ~(ms_since_last_second < 1000)
    THEN Panic("Invalid MS since last second")
    ELSE Ok(Some(UtcTimestamp(unix_days_seconds, ms_since_last_second * 1000000)))

\* CdsShortTimeProvider::setup
setup(provider, unix_days_seconds, ms_of_day) ==
    LET date_time == calc_date_time(unix_days_seconds, ms_of_day % 1000)
    IN  IF date_time.status # "Ok" THEN date_time
        ELSE Ok([provider EXCEPT
                   !.unix_seconds = calc_unix_seconds(unix_days_seconds, ms_of_day),
                   !.date_time = date_time.val])

\* CdsShortTimeProvider::new(ccsds_days: u16, ms_of_day: u32)
CdsShortTimeProviderNew(ccsds_days, ms_of_day) ==
    LET provider == [pfield |-> (Cds * 16) % U8,
                     ccsds_days |-> ccsds_days,
                     ms_of_day |-> ms_of_day,
                     unix_seconds |-> 0,
                     date_time |-> None]
        unix_days_seconds == ccsds_to_unix_days(ccsds_days) * (24 * 60 * 60)
    IN  setup(provider, unix_days_seconds, ms_of_day)

\* CdsShortTimeProvider::from_now, the system clock reading epoch seconds and
\* subsec_millis milliseconds after 1970
CdsShortTimeProviderFromNow(epoch, subsec_millis) ==
    LET secs_of_day == epoch % SECONDS_PER_DAY
        unix_days_seconds == epoch - secs_of_day
        ms_of_day == secs_of_day * 1000 + subsec_millis
        provider == [pfield |-> (Cds * 16) % U8,
                     ccsds_days |->
                        unix_to_ccsds_days(unix_days_seconds \div SECONDS_PER_DAY) % U16,
                     ms_of_day |-> ms_of_day,
                     unix_seconds |-> 0,
                     date_time |-> None]
    IN  setup(provider, unix_days_seconds, ms_of_day)

\* CdsShortTimeProvider::write_to_bytes: the result (val is the slice length
\* of the error) and the slice afterwards
CdsWriteToBytes(self, slice) ==
    IF Len(slice) < CDS_SHORT_LEN
    THEN [res |-> Err("ToBytesSliceTooSmall", Len(slice)), slice |-> slice]
    ELSE
    LET s0 == [slice EXCEPT ![1] = self.pfield]
        s1 == CopyInto(s0, 1, U16ToBe(self.ccsds_days))
    IN  \* slice[4..].copy_from_slice of 4 bytes: the lengths must be equal
        IF Len(slice) - 4 # 4
        THEN [res |-> Panic("source slice length does not match destination slice length"),
              slice |-> s1]
        ELSE [res |-> Ok(0), slice |-> CopyInto(s1, 4, U32ToBe(self.ms_of_day))]

\* day counts on both sides of 1970-01-01 (day 4383)
DayInputs == {0, 1, 4382, 4383, 4384, MaxDays}
\* milliseconds of the day: whole seconds, fractions, the last one, and more
MsInputs == {0, 1, 999, 1000, 1500, 86399999, 86400000, 2147483647}
\* clock readings of from_now: seconds and milliseconds since 1970
EpochInputs == {0, 86399, 86400, 1667482896}
MillisInputs == {0, 999}

\* destination slices, every byte 0xAA
Filled(n) == [i \in 1..n |-> 170]
StampBufInputs == {Filled(n) : n \in 0..MaxBuf}

InitTime ==
    /\ sph = tc_unseg(2, 52, 0)
    /\ tc = None
    /\ buf = << >>
    /\ vec = << >>
    /\ ret = Call("none", 0, Ok(0))
    /\ dec = NotDecoded
    /\ flip = None
    /\ stamp = None

\* the provider record, copied field by field
CopyProvider(p) ==
    [pfield |-> p.pfield, ccsds_days |-> p.ccsds_days, ms_of_day |-> p.ms_of_day,
     unix_seconds |-> p.unix_seconds, date_time |-> p.date_time]

StampNew(ccsds_days, ms_of_day) ==
    /\ ~stamp.some /\ ret.op = "none"
    /\ LET r == CdsShortTimeProviderNew(ccsds_days, ms_of_day)
       IN  /\ stamp' = IF r.status = "Ok" THEN Some(CopyProvider(r.val)) ELSE None
           /\ ret' = Call("new", ms_of_day, [r EXCEPT !.val = ccsds_days])
    /\ UNCHANGED << sph, tc, buf, vec, dec, flip >>

StampFromNow(epoch, subsec_millis) ==
    /\ ~stamp.some /\ ret.op = "none"
    /\ LET r == CdsShortTimeProviderFromNow(epoch, subsec_millis)
       IN  /\ stamp' = IF r.status = "Ok" THEN Some(CopyProvider(r.val)) ELSE None
           /\ ret' = Call("from_now", subsec_millis, [r EXCEPT !.val = epoch])
    /\ UNCHANGED << sph, tc, buf, vec, dec, flip >>

StampWriteToBytes(slice) ==
    /\ stamp.some /\ ret.op \in {"new", "from_now"}
    /\ LET r == CdsWriteToBytes(stamp.val, slice)
       IN  /\ buf' = r.slice
           /\ ret' = Call("write_to_bytes", Len(slice), r.res)
    /\ UNCHANGED << sph, tc, vec, dec, flip, stamp >>

NextTime ==
    \/ \E ccsds_days \in DayInputs, ms_of_day \in MsInputs :
          StampNew(ccsds_days, ms_of_day)
    \/ \E epoch \in EpochInputs, subsec_millis \in MillisInputs :
          StampFromNow(epoch, subsec_millis)
    \/ \E slice \in StampBufInputs : StampWriteToBytes(slice)

SpecTime == InitTime /\ [][NextTime]_vars

\* new(d, ms) returned: d is ret.val, ms is ret.arg
StampedNew == stamp.some /\ ret.op = "new" /\ ret.status = "Ok"

(***************************************************************************)
(* C12: timestamp seconds are additive.  For every day count d and every   *)
(* millisecond of day ms, new(d, ms).unix_seconds() is                     *)
(* (d - 4383) * 86400 + floor(ms / 1000), also when (d - 4383) * 86400 is  *)
(* negative.                                                               *)
(***************************************************************************)
C12_SecondsAdditive ==
    StampedNew
    => stamp.val.unix_seconds = (ret.val - 4383) * 86400 + ret.arg \div 1000

\* what the code computes before 1970: the seconds of the day are subtracted
C12_SubtractedBefore1970 ==
    StampedNew
    => stamp.val.unix_seconds =
         IF ret.val < 4383
         THEN (ret.val - 4383) * 86400 - ret.arg \div 1000
         ELSE (ret.val - 4383) * 86400 + ret.arg \div 1000

(***************************************************************************)
(* C13: timestamp consistency.  For every provider built by new or         *)
(* from_now the cached date-time denotes the instant of the cached UNIX    *)
(* seconds: its whole seconds since 1970 are unix_seconds() and its        *)
(* sub-second part is ms_of_day mod 1000 milliseconds.                     *)
(***************************************************************************)
C13_TimestampConsistency ==
    stamp.some
    => /\ stamp.val.date_time.some
       /\ stamp.val.date_time.val.secs = stamp.val.unix_seconds
       /\ stamp.val.date_time.val.nanos = (stamp.val.ms_of_day % 1000) * 1000000

\* what the code caches: the midnight of the day, with the sub-second part
C13_DateTimeOfMidnight ==
    stamp.some
    => /\ stamp.val.date_time.some
       /\ stamp.val.date_time.val.secs =
            ccsds_to_unix_days(stamp.val.ccsds_days) * SECONDS_PER_DAY
       /\ stamp.val.date_time.val.nanos = (stamp.val.ms_of_day % 1000) * 1000000

(***************************************************************************)
(* C14: epoch arithmetic with zero milliseconds.  For every day count d,   *)
(* new(d, 0).unix_seconds() is (d - 4383) * 86400 and date_time() is the   *)
(* midnight of the day d days after 1958-01-01: new(0, 0) gives            *)
(* -4383 * 86400 seconds and 1958-01-01T00:00:00, new(4383, 0) gives 0     *)
(* seconds and 1970-01-01T00:00:00; unix_to_ccsds_days and                 *)
(* ccsds_to_unix_days are inverses of each other.                          *)
(***************************************************************************)
Midnight(y, m, d) ==
    [year |-> y, month |-> m, day |-> d, hour |-> 0, minute |-> 0, second |-> 0]

C14_EpochArithmetic ==
    (StampedNew /\ ret.arg = 0)
    => LET d == ret.val
           dt == stamp.val.date_time
       IN  /\ stamp.val.unix_seconds = (d - 4383) * 86400
           /\ dt.some
           /\ dt.val.secs = (d - 4383) * 86400 /\ dt.val.nanos = 0
           /\ DateTimeFields(dt.val).hour = 0
           /\ DateTimeFields(dt.val).minute = 0
           /\ DateTimeFields(dt.val).second = 0
           /\ d = 0 => /\ stamp.val.unix_seconds = -378691200
                       /\ DateTimeFields(dt.val) = Midnight(1958, 1, 1)
           /\ d = 1 => DateTimeFields(dt.val) = Midnight(1958, 1, 2)
           /\ d = 4382 => DateTimeFields(dt.val) = Midnight(1969, 12, 31)
           /\ d = 4383 => /\ stamp.val.unix_seconds = 0
                          /\ DateTimeFields(dt.val) = Midnight(1970, 1, 1)
           /\ unix_to_ccsds_days(ccsds_to_unix_days(d)) = d
           /\ ccsds_to_unix_days(unix_to_ccsds_days(d - 4383)) = d - 4383
           /\ ccsds_to_unix_days(unix_to_ccsds_days(-d)) = -d
           /\ unix_to_ccsds_days(DAYS_CCSDS_TO_UNIX) = 0
           /\ ccsds_to_unix_days(0) = DAYS_CCSDS_TO_UNIX

\* new(0, 0) returned the provider of 1958-01-01T00:00:00
C14_Witness ==
    /\ StampedNew /\ ret.arg = 0 /\ ret.val = 0
    /\ stamp.val.unix_seconds = -378691200
    /\ DateTimeFields(stamp.val.date_time.val) = Midnight(1958, 1, 1)

(***************************************************************************)
(* C15: timestamp encoding.  write_to_bytes fails with                     *)
(* ToBytesSliceTooSmall(len) for every destination shorter than 7 bytes;   *)
(* for every destination of 7 bytes or more it returns Ok having written   *)
(* the p-field at byte 0 and the day count big endian at bytes 1..2, the   *)
(* milliseconds of the day behind them, and no byte beyond the 7 bytes of  *)
(* the format.                                                             *)
(***************************************************************************)
StampWritten == stamp.some /\ ret.op = "write_to_bytes"

C15_TimestampEncoding ==
    StampWritten
    => IF ret.arg < CDS_SHORT_LEN
       THEN /\ ret.status = "Err" /\ ret.err = "ToBytesSliceTooSmall"
            /\ ret.val = ret.arg
            /\ buf = Filled(ret.arg)
       ELSE /\ ret.status = "Ok"
            /\ Len(buf) = ret.arg
            /\ buf[1] = stamp.val.pfield
            /\ << buf[2], buf[3] >> = U16ToBe(stamp.val.ccsds_days)
            /\ \A i \in (CDS_SHORT_LEN + 1)..Len(buf) : buf[i] = 170

\* what the code does: it succeeds on 8 bytes only, where it leaves byte 3
\* alone and writes the milliseconds to bytes 4..7; on 7 bytes and on 9 or
\* more the last copy panics
C15_EightBytesOnly ==
    StampWritten
    => IF ret.arg < CDS_SHORT_LEN
       THEN /\ ret.status = "Err" /\ ret.err = "ToBytesSliceTooSmall"
            /\ ret.val = ret.arg
            /\ buf = Filled(ret.arg)
       ELSE IF ret.arg = CDS_SHORT_LEN + 1
       THEN /\ ret.status = "Ok"
            /\ buf = << stamp.val.pfield >> \o U16ToBe(stamp.val.ccsds_days)
                       \o << 170 >> \o U32ToBe(stamp.val.ms_of_day)
       ELSE ret.status = "Panic"

(***************************************************************************)
(* C16: millisecond-of-day invariant.  Every provider built by new, with   *)
(* any arguments, or by from_now has its ms_of_day field within            *)
(* [0, 86 399 999].                                                        *)
(***************************************************************************)
C16_MsOfDayRange ==
    stamp.some => stamp.val.ms_of_day \in 0..(SECONDS_PER_DAY * 1000 - 1)

\* from_now keeps the range; new stores its argument as it is
C16_MsOfDayStored ==
    /\ (stamp.some /\ ret.op = "from_now")
       => stamp.val.ms_of_day \in 0..(SECONDS_PER_DAY * 1000 - 1)
    /\ StampedNew => stamp.val.ms_of_day = ret.arg

(***************************************************************************)
(* SpecSeq: a packet is built, its fields and its checksum mode are        *)
(* changed in any order, the checksum is computed at any point, and the    *)
(* packet is written into a slice that is then decoded.                    *)
(***************************************************************************)
SeqAppDataInputs == {None, Some(<< 1, 2, 3 >>)}

NextSeq ==
    \/ \E sec \in WireSecHeaderInputs, app \in SeqAppDataInputs, len \in BOOLEAN :
         New(sec, app, len)
    \/ \E ack \in {3, 16} : SetAckField(ack)
    \/ \E source_id \in {258} : SetSourceId(source_id)
    \/ \E apid \in {2047, 2048} : SetApid(apid)
    \/ \E b \in BOOLEAN : SetCalcCrcOnSerialization(b)
    \/ UpdateCcsdsDataLen
    \/ CalcOwnCrc16
    \/ UpdatePacketFields
    \/ \E slice \in {Zeroed(MaxBuf)} : WriteToBytes(slice)
    \/ FromBytes(Len(buf))

SpecSeq == InitWire /\ [][NextSeq]_vars

(***************************************************************************)
(* C17: checksum freshness over operation sequences.  After any sequence   *)
(* of new, set_ack_field, set_source_id, primary header setters,           *)
(* update_ccsds_data_len, calc_own_crc16, update_packet_fields and         *)
(* assignments to calc_crc_on_serialization, every write_to_bytes that     *)
(* returns Ok has written a trailer equal to the CRC-16/CCITT-FALSE of the *)
(* bytes before it, so that the output is accepted by from_bytes whenever  *)
(* the length field is current.                                            *)
(***************************************************************************)
\* the bytes written before the trailer
WrittenBody == Slice(buf, 0, ret.val - CRC_LEN)
\* the length field is the one update_ccsds_data_len would set
LengthCurrent(p) == DeclaredLen(p.sp_header) = ExpectedLen(p)
\* the cached checksum is the one calc_own_crc16 computes for the fields as
\* they are: no field it covers has another value than when it was computed
CachedFresh(p) == p.crc16.some /\ p.crc16 = calc_own_crc16(p).tc.crc16

C17_ChecksumAlwaysFresh ==
    Written
    => /\ Trailer(buf, ret.val) = U16ToBe(calc_pus_crc16(WrittenBody))
       /\ (dec.called /\ LengthCurrent(tc.val)) => dec.res.status = "Ok"

\* In automatic mode the trailer is the checksum of the bytes written.  In
\* manual mode the trailer is the cached checksum as it is: it is the
\* checksum of the bytes written, and the output is accepted by from_bytes
\* when the length field is current, exactly when the cached checksum was
\* computed for the fields as they are; a checksum cached before a later
\* field change is emitted and from_bytes rejects the output.
C17_ChecksumFreshWhenRecomputed ==
    Written
    => LET p == tc.val
           fresh == p.calc_crc_on_serialization \/ CachedFresh(p)
       IN  /\ ~p.calc_crc_on_serialization
              => p.crc16.some /\ Trailer(buf, ret.val) = U16ToBe(p.crc16.val)
           /\ fresh <=> Trailer(buf, ret.val) = U16ToBe(calc_pus_crc16(WrittenBody))
           /\ (dec.called /\ LengthCurrent(p))
              => IF fresh
                 THEN dec.res.status = "Ok"
                 ELSE dec.res.status = "Err" /\ dec.res.err = "IncorrectCrc"

\* manual mode: the source id was set, the checksum computed after it, the
\* packet written and the output accepted
C17_Witness ==
    /\ Written /\ dec.called /\ dec.res.status = "Ok"
    /\ ~tc.val.calc_crc_on_serialization
    /\ tc.val.sec_header.source_id = 258
    /\ tc.val.sp_header.apid = 2047
    /\ CachedFresh(tc.val)
    /\ PayloadLen(tc.val) > 0

\* manual mode: a checksum cached before a field change was written
C17_StaleWritten ==
    /\ Written /\ ~tc.val.calc_crc_on_serialization /\ ~CachedFresh(tc.val)

====
